---- MODULE Spec2Model ----
(***************************************************************************)
(* Model of pkg/network/admitter/netiface.go (KubeVirt): the validation of *)
(* the network and interface lists of a VirtualMachineInstanceSpec.        *)
(*                                                                         *)
(* Go strings that the code inspects byte by byte (names, MAC and PCI      *)
(* addresses) are sequences of one-character strings; strings the code     *)
(* only compares or prints (models, messages, field paths) are TLA+        *)
(* strings.  Go indices are 0-based: element idx of a Go slice is element  *)
(* idx + 1 of the sequence that models it.                                 *)
(***************************************************************************)
EXTENDS Integers, Sequences, FiniteSets, TLC

VARIABLES field, spec, called, ret, sub

vars == <<field, spec, called, ret, sub>>

(***************************************************************************)
(* Bounds of the model.                                                    *)
(***************************************************************************)
MaxNetworks == 3
MaxInterfaces == 3
MaxFieldInterfaces == 2
MaxPad == 2

(***************************************************************************)
(* Strings.                                                                *)
(***************************************************************************)
RECURSIVE Str(_)
Str(s) == IF s = <<>> THEN "" ELSE Head(s) \o Str(Tail(s))

Digits == << "0", "1", "2", "3", "4", "5", "6", "7", "8", "9" >>

Upper ==
    << "A", "B", "C", "D", "E", "F", "G", "H", "I", "J", "K", "L", "M",
       "N", "O", "P", "Q", "R", "S", "T", "U", "V", "W", "X", "Y", "Z" >>

Lower ==
    << "a", "b", "c", "d", "e", "f", "g", "h", "i", "j", "k", "l", "m",
       "n", "o", "p", "q", "r", "s", "t", "u", "v", "w", "x", "y", "z" >>

\* The other characters of the model, each with its byte value.
Punct ==
    << <<"\t", 9>>, <<"\n", 10>>, <<" ", 32>>, <<"\"", 34>>, <<"'", 39>>, <<"-", 45>>,
       <<".", 46>>, <<"/", 47>>, <<":", 58>>, <<"@", 64>>, <<"[", 91>>, <<"\\", 92>>,
       <<"^", 94>>, <<"_", 95>>, <<"{", 123>> >>

IndexOf(seq, c) == CHOOSE i \in 1..Len(seq) : seq[i] = c

InSeq(seq, c) == \E i \in 1..Len(seq) : seq[i] = c

\* The byte value of a character.
Ord(c) ==
    IF InSeq(Digits, c) THEN 47 + IndexOf(Digits, c)
    ELSE IF InSeq(Upper, c) THEN 64 + IndexOf(Upper, c)
    ELSE IF InSeq(Lower, c) THEN 96 + IndexOf(Lower, c)
    ELSE Punct[CHOOSE i \in 1..Len(Punct) : Punct[i][1] = c][2]

\* The %q verb of fmt on a string: strconv.Quote.
QuoteChar(c) ==
    IF c = "\"" THEN "\\\""
    ELSE IF c = "\\" THEN "\\\\"
    ELSE IF c = "\n" THEN "\\n"
    ELSE IF c = "\t" THEN "\\t"
    ELSE c

RECURSIVE QuoteBody(_)
QuoteBody(s) == IF s = <<>> THEN "" ELSE QuoteChar(Head(s)) \o QuoteBody(Tail(s))

Quote(s) == "\"" \o QuoteBody(s) \o "\""

(***************************************************************************)
(* k8sfield.Path: a path is the sequence of its elements from the root;    *)
(* an element has a name or an index.  The nil path is the empty sequence. *)
(***************************************************************************)
NilPath == <<>>

NewPath(name) == << [name |-> name, index |-> ""] >>

Child(path, name) == Append(path, [name |-> name, index |-> ""])

Index(path, i) == Append(path, [name |-> "", index |-> ToString(i)])

RECURSIVE PathString(_)
PathString(path) ==
    IF path = <<>> THEN ""
    ELSE LET n == Len(path)
             p == path[n]
             parent == SubSeq(path, 1, n - 1)
         IN  PathString(parent)
             \o (IF parent # <<>> /\ p.name # "" THEN "." ELSE "")
             \o (IF p.name # "" THEN p.name ELSE "[" \o p.index \o "]")

(***************************************************************************)
(* metav1.StatusCause and its cause types.                                 *)
(***************************************************************************)
CauseTypeFieldValueRequired == "FieldValueRequired"
CauseTypeFieldValueInvalid == "FieldValueInvalid"
CauseTypeFieldValueDuplicate == "FieldValueDuplicate"
CauseTypeFieldValueNotSupported == "FieldValueNotSupported"

StatusCause(type, message, fieldPath) ==
    [Type |-> type, Message |-> message, Field |-> fieldPath]

(***************************************************************************)
(* vmispec: the lookup maps of the two lists, keyed by name.               *)
(***************************************************************************)
IndexInterfaceSpecByName(interfaces) ==
    [name \in {interfaces[i].Name : i \in 1..Len(interfaces)} |->
        interfaces[CHOOSE i \in 1..Len(interfaces) :
            /\ interfaces[i].Name = name
            /\ \A j \in (i + 1)..Len(interfaces) : interfaces[j].Name # name]]

IndexNetworkSpecByName(networks) ==
    [name \in {networks[i].Name : i \in 1..Len(networks)} |->
        networks[CHOOSE i \in 1..Len(networks) :
            /\ networks[i].Name = name
            /\ \A j \in (i + 1)..Len(networks) : networks[j].Name # name]]

(***************************************************************************)
(* The cross-reference checks.                                             *)
(***************************************************************************)
NetworkNamePath(path, i) == PathString(Child(Index(Child(path, "networks"), i), "name"))

InterfacesPath(path) == Child(Child(Child(path, "domain"), "devices"), "interfaces")

InterfaceFieldPath(path, idx, name) == PathString(Child(Index(InterfacesPath(path), idx), name))

nameOfTypeNotFoundMessage(fieldPath, name) == fieldPath \o " '" \o Str(name) \o "' not found."

\* NetworksAssignedBody with the lookup result negated once too often.
NetworksAssignedBody_Inverted(path, i, network, interfaceSet) ==
    IF network.Name \in DOMAIN interfaceSet
    THEN << StatusCause(CauseTypeFieldValueRequired,
                        nameOfTypeNotFoundMessage(NetworkNamePath(path, i), network.Name),
                        NetworkNamePath(path, i)) >>
    ELSE <<>>

NetworksAssignedBody(path, i, network, interfaceSet) ==
    IF network.Name \notin DOMAIN interfaceSet
    THEN << StatusCause(CauseTypeFieldValueRequired,
                        nameOfTypeNotFoundMessage(NetworkNamePath(path, i), network.Name),
                        NetworkNamePath(path, i)) >>
    ELSE <<>>

RECURSIVE NetworksAssignedLoop(_, _, _, _)
NetworksAssignedLoop(path, networks, interfaceSet, i) ==
    IF i >= Len(networks) THEN <<>>
    ELSE NetworksAssignedBody(path, i, networks[i + 1], interfaceSet)
             \o NetworksAssignedLoop(path, networks, interfaceSet, i + 1)

validateNetworksAssignedToInterfaces(path, s) ==
    NetworksAssignedLoop(path, s.Networks, IndexInterfaceSpecByName(s.Interfaces), 0)

InterfacesAssignedBody(path, idx, iface, networkSet) ==
    IF iface.Name \notin DOMAIN networkSet
    THEN << StatusCause(CauseTypeFieldValueInvalid,
                        nameOfTypeNotFoundMessage(InterfaceFieldPath(path, idx, "name"), iface.Name),
                        InterfaceFieldPath(path, idx, "name")) >>
    ELSE <<>>

RECURSIVE InterfacesAssignedLoop(_, _, _, _)
InterfacesAssignedLoop(path, interfaces, networkSet, idx) ==
    IF idx >= Len(interfaces) THEN <<>>
    ELSE InterfacesAssignedBody(path, idx, interfaces[idx + 1], networkSet)
             \o InterfacesAssignedLoop(path, interfaces, networkSet, idx + 1)

\* validateInterfacesAssignedToNetworks with the lookup set built from the
\* interfaces instead of the networks.
validateInterfacesAssignedToNetworks_OwnSet(path, s) ==
    InterfacesAssignedLoop(path, s.Interfaces, IndexInterfaceSpecByName(s.Interfaces), 0)

validateInterfacesAssignedToNetworks(path, s) ==
    InterfacesAssignedLoop(path, s.Interfaces, IndexNetworkSpecByName(s.Networks), 0)

(***************************************************************************)
(* The uniqueness checks.                                                  *)
(***************************************************************************)
\* NetworkDuplicateMessage with the %s verb instead of %q.
NetworkDuplicateMessage_Verbatim(name) ==
    "Network with name " \o Str(name) \o " already exists, every network must have a unique name"

NetworkDuplicateMessage(name) ==
    "Network with name " \o Quote(name) \o " already exists, every network must have a unique name"

\* NetworkNameUniqueBody with the name added to the set before the lookup.
NetworkNameUniqueBody_AfterInsert(path, i, network, networkSet) ==
    IF network.Name \in (networkSet \cup {network.Name})
    THEN << StatusCause(CauseTypeFieldValueDuplicate,
                        "Network with name " \o Quote(network.Name)
                            \o " already exists, every network must have a unique name",
                        NetworkNamePath(path, i)) >>
    ELSE <<>>

NetworkNameUniqueBody(path, i, network, networkSet) ==
    IF network.Name \in networkSet
    THEN << StatusCause(CauseTypeFieldValueDuplicate,
                        NetworkDuplicateMessage(network.Name),
                        NetworkNamePath(path, i)) >>
    ELSE <<>>

RECURSIVE NetworkNameUniqueLoop(_, _, _, _)
NetworkNameUniqueLoop(path, networks, networkSet, i) ==
    IF i >= Len(networks) THEN <<>>
    ELSE NetworkNameUniqueBody(path, i, networks[i + 1], networkSet)
             \o NetworkNameUniqueLoop(path, networks, networkSet \cup {networks[i + 1].Name}, i + 1)

validateNetworkNameUnique(path, s) == NetworkNameUniqueLoop(path, s.Networks, {}, 0)

InterfaceDuplicateMessage == "Only one interface can be connected to one specific network"

\* InterfaceNameUniqueBody with the name added to the set before the lookup.
InterfaceNameUniqueBody_AfterInsert(path, idx, iface, ifaceSet) ==
    IF iface.Name \in (ifaceSet \cup {iface.Name})
    THEN << StatusCause(CauseTypeFieldValueDuplicate,
                        "Only one interface can be connected to one specific network",
                        InterfaceFieldPath(path, idx, "name")) >>
    ELSE <<>>

InterfaceNameUniqueBody(path, idx, iface, ifaceSet) ==
    IF iface.Name \in ifaceSet
    THEN << StatusCause(CauseTypeFieldValueDuplicate,
                        InterfaceDuplicateMessage,
                        InterfaceFieldPath(path, idx, "name")) >>
    ELSE <<>>

RECURSIVE InterfaceNameUniqueLoop(_, _, _, _)
InterfaceNameUniqueLoop(path, interfaces, ifaceSet, idx) ==
    IF idx >= Len(interfaces) THEN <<>>
    ELSE InterfaceNameUniqueBody(path, idx, interfaces[idx + 1], ifaceSet)
             \o InterfaceNameUniqueLoop(path, interfaces, ifaceSet \cup {interfaces[idx + 1].Name}, idx + 1)

validateInterfaceNameUnique(path, s) == InterfaceNameUniqueLoop(path, s.Interfaces, {}, 0)

(***************************************************************************)
(* The name format check: regexp `^[A-Za-z0-9-_]+$`.MatchString.  Under    *)
(* the Perl syntax flags of regexp.MustCompile the class is the ranges     *)
(* A-Z, a-z, 0-9 and the two literals '-' and '_'; without the m flag `$`  *)
(* matches at the end of the text only.                                    *)
(***************************************************************************)
NameClass == << <<65, 90>>, <<97, 122>>, <<48, 57>>, <<45, 45>>, <<95, 95>> >>

InClass(class, c) == \E r \in 1..Len(class) : Ord(c) >= class[r][1] /\ Ord(c) <= class[r][2]

\* The position after the longest run of class characters that starts at pos.
RECURSIVE ConsumeClass(_, _, _)
ConsumeClass(class, s, pos) ==
    IF pos <= Len(s) /\ InClass(class, s[pos]) THEN ConsumeClass(class, s, pos + 1) ELSE pos

\* isValid without the anchor at the end of the text.
isValid_Unanchored(name) == ConsumeClass(NameClass, name, 1) > 1

isValid(name) ==
    LET end == ConsumeClass(NameClass, name, 1)
    IN  end > 1 /\ end = Len(name) + 1

InterfaceNameFormatMessage ==
    "Network interface name can only contain alphabetical characters, numbers, dashes (-) or underscores (_)"

validateInterfaceNameFormat(path, idx, iface) ==
    IF ~isValid(iface.Name)
    THEN << StatusCause(CauseTypeFieldValueInvalid,
                        InterfaceNameFormatMessage,
                        InterfaceFieldPath(path, idx, "name")) >>
    ELSE <<>>

(***************************************************************************)
(* The model check.                                                        *)
(***************************************************************************)
VirtIO == "virtio"

validInterfaceModels == {"e1000", "e1000e", "ne2k_pci", "pcnet", "rtl8139", VirtIO}

\* validateInterfaceModel without the test that skips the empty model.
validateInterfaceModel_NoSkip(path, idx, iface) ==
    IF iface.Model \notin validInterfaceModels
    THEN << StatusCause(CauseTypeFieldValueNotSupported,
                        "interface " \o InterfaceFieldPath(path, idx, "name")
                            \o " uses model " \o iface.Model \o " that is not supported.",
                        InterfaceFieldPath(path, idx, "model")) >>
    ELSE <<>>

validateInterfaceModel(path, idx, iface) ==
    IF iface.Model # "" /\ iface.Model \notin validInterfaceModels
    THEN << StatusCause(CauseTypeFieldValueNotSupported,
                        "interface " \o InterfaceFieldPath(path, idx, "name")
                            \o " uses model " \o iface.Model \o " that is not supported.",
                        InterfaceFieldPath(path, idx, "model")) >>
    ELSE <<>>

(***************************************************************************)
(* net.ParseMAC of the Go standard library: 6, 8 or 20 bytes written as    *)
(* two-digit groups separated by ':' or '-', or as four-digit groups       *)
(* separated by '.'.  On every error the returned address is nil.          *)
(***************************************************************************)
IsHex(c) ==
    \/ (Ord(c) >= 48 /\ Ord(c) <= 57)
    \/ (Ord(c) >= 97 /\ Ord(c) <= 102)
    \/ (Ord(c) >= 65 /\ Ord(c) <= 70)

HexVal(c) ==
    IF Ord(c) <= 57 THEN Ord(c) - 48
    ELSE IF Ord(c) >= 97 THEN Ord(c) - 97 + 10
    ELSE Ord(c) - 65 + 10

\* xtoi2 converts the two hexadecimal digits at the head of s, which must be
\* followed by e when s is longer: [n |-> the byte, ok |-> the success].
xtoi2(s, e) ==
    IF Len(s) > 2 /\ s[3] # e THEN [n |-> 0, ok |-> FALSE]
    ELSE IF IsHex(s[1]) /\ IsHex(s[2])
         THEN [n |-> (16 * HexVal(s[1]) + HexVal(s[2])) % 256, ok |-> TRUE]
         ELSE [n |-> 0, ok |-> FALSE]

From(s, x) == SubSeq(s, x + 1, Len(s))

MacError == [hw |-> <<>>, err |-> TRUE]

\* The groups of the colon and hyphen forms, from byte i at offset x.
RECURSIVE ParseMACBytes(_, _, _, _)
ParseMACBytes(s, n, x, i) ==
    IF i >= n THEN [hw |-> <<>>, err |-> FALSE]
    ELSE LET b == xtoi2(From(s, x), s[3])
         IN  IF ~b.ok THEN MacError
             ELSE LET rest == ParseMACBytes(s, n, x + 3, i + 1)
                  IN  IF rest.err THEN MacError
                      ELSE [hw |-> <<b.n>> \o rest.hw, err |-> FALSE]

\* The groups of the dot form, from byte i at offset x.
RECURSIVE ParseMACWords(_, _, _, _)
ParseMACWords(s, n, x, i) ==
    IF i >= n THEN [hw |-> <<>>, err |-> FALSE]
    ELSE LET hi == xtoi2(SubSeq(s, x + 1, x + 2), "")
             lo == xtoi2(From(s, x + 2), s[5])
         IN  IF ~hi.ok \/ ~lo.ok THEN MacError
             ELSE LET rest == ParseMACWords(s, n, x + 5, i + 2)
                  IN  IF rest.err THEN MacError
                      ELSE [hw |-> <<hi.n, lo.n>> \o rest.hw, err |-> FALSE]

ParseMAC(s) ==
    IF Len(s) < 14 THEN MacError
    ELSE IF s[3] = ":" \/ s[3] = "-"
         THEN IF (Len(s) + 1) % 3 # 0 THEN MacError
              ELSE LET n == (Len(s) + 1) \div 3
                   IN  IF n # 6 /\ n # 8 /\ n # 20 THEN MacError
                       ELSE ParseMACBytes(s, n, 0, 0)
         ELSE IF s[5] = "."
              THEN IF (Len(s) + 1) % 5 # 0 THEN MacError
                   ELSE LET n == (2 * (Len(s) + 1)) \div 5
                        IN  IF n # 6 /\ n # 8 /\ n # 20 THEN MacError
                            ELSE ParseMACWords(s, n, 0, 0)
              ELSE MacError

(***************************************************************************)
(* The MAC address check.                                                  *)
(***************************************************************************)
macLen == 6

MalformedMacCause(path, idx, iface) ==
    StatusCause(CauseTypeFieldValueInvalid,
                "interface " \o InterfaceFieldPath(path, idx, "name")
                    \o " has malformed MAC address (" \o Str(iface.MacAddress) \o ").",
                InterfaceFieldPath(path, idx, "macAddress"))

TooLongMacCause(path, idx, iface) ==
    StatusCause(CauseTypeFieldValueInvalid,
                "interface " \o InterfaceFieldPath(path, idx, "name")
                    \o " has MAC address (" \o Str(iface.MacAddress) \o ") that is too long.",
                InterfaceFieldPath(path, idx, "macAddress"))

\* validateMacAddress with the length of the text compared instead of the
\* length of the parsed address.
validateMacAddress_TextLength(path, idx, iface) ==
    IF iface.MacAddress # <<>>
    THEN LET parsed == ParseMAC(iface.MacAddress)
         IN  (IF parsed.err THEN << MalformedMacCause(path, idx, iface) >> ELSE <<>>)
             \o (IF Len(iface.MacAddress) > macLen THEN << TooLongMacCause(path, idx, iface) >> ELSE <<>>)
    ELSE <<>>

\* validateMacAddress with an address of macLen bytes counted as too long.
validateMacAddress_Inclusive(path, idx, iface) ==
    IF iface.MacAddress # <<>>
    THEN LET parsed == ParseMAC(iface.MacAddress)
         IN  (IF parsed.err THEN << MalformedMacCause(path, idx, iface) >> ELSE <<>>)
             \o (IF Len(parsed.hw) >= macLen THEN << TooLongMacCause(path, idx, iface) >> ELSE <<>>)
    ELSE <<>>

validateMacAddress(path, idx, iface) ==
    IF iface.MacAddress # <<>>
    THEN LET parsed == ParseMAC(iface.MacAddress)
         IN  (IF parsed.err THEN << MalformedMacCause(path, idx, iface) >> ELSE <<>>)
             \o (IF Len(parsed.hw) > macLen THEN << TooLongMacCause(path, idx, iface) >> ELSE <<>>)
    ELSE <<>>

(***************************************************************************)
(* hwutil.ParsePciAddress: domain:bus:device.function, each component a    *)
(* hexadecimal field of fixed width (4, 2, 2 and 1 digits).                *)
(***************************************************************************)
AllHex(s) == \A i \in 1..Len(s) : IsHex(s[i])

ParsePciAddress(s) ==
    IF /\ Len(s) = 12
       /\ AllHex(SubSeq(s, 1, 4)) /\ s[5] = ":"
       /\ AllHex(SubSeq(s, 6, 7)) /\ s[8] = ":"
       /\ AllHex(SubSeq(s, 9, 10)) /\ s[11] = "."
       /\ IsHex(s[12])
    THEN [addr |-> <<SubSeq(s, 1, 4), SubSeq(s, 6, 7), SubSeq(s, 9, 10), SubSeq(s, 12, 12)>>,
          err |-> FALSE]
    ELSE [addr |-> <<>>, err |-> TRUE]

validatePciAddress(path, idx, iface) ==
    IF iface.PciAddress # <<>> /\ ParsePciAddress(iface.PciAddress).err
    THEN << StatusCause(CauseTypeFieldValueInvalid,
                        "interface " \o InterfaceFieldPath(path, idx, "name")
                            \o " has malformed PCI address (" \o Str(iface.PciAddress) \o ").",
                        InterfaceFieldPath(path, idx, "pciAddress")) >>
    ELSE <<>>

(***************************************************************************)
(* The field checks of every interface.                                    *)
(***************************************************************************)
\* InterfaceFieldsBody that stops at the first sub-check that returns a cause.
InterfaceFieldsBody_ShortCircuit(path, idx, iface) ==
    IF validateInterfaceNameFormat(path, idx, iface) # <<>>
    THEN validateInterfaceNameFormat(path, idx, iface)
    ELSE IF validateInterfaceModel(path, idx, iface) # <<>>
         THEN validateInterfaceModel(path, idx, iface)
         ELSE IF validateMacAddress(path, idx, iface) # <<>>
              THEN validateMacAddress(path, idx, iface)
              ELSE validatePciAddress(path, idx, iface)

InterfaceFieldsBody(path, idx, iface) ==
    validateInterfaceNameFormat(path, idx, iface)
        \o validateInterfaceModel(path, idx, iface)
        \o validateMacAddress(path, idx, iface)
        \o validatePciAddress(path, idx, iface)

RECURSIVE InterfacesFieldsLoop(_, _, _)
InterfacesFieldsLoop(path, interfaces, idx) ==
    IF idx >= Len(interfaces) THEN <<>>
    ELSE InterfaceFieldsBody(path, idx, interfaces[idx + 1])
             \o InterfacesFieldsLoop(path, interfaces, idx + 1)

validateInterfacesFields(path, s) == InterfacesFieldsLoop(path, s.Interfaces, 0)

(***************************************************************************)
(* The inputs: the field path prefix and the spec the caller hands over.   *)
(***************************************************************************)
Fields == {NilPath, NewPath("spec")}

SeqsUpTo(S, n) == UNION {[1..k -> S] : k \in 0..n}

RECURSIVE Rep(_, _, _)
Rep(group, sep, n) == IF n <= 1 THEN group ELSE group \o <<sep>> \o Rep(group, sep, n - 1)

Network(name) == [Name |-> name]

Interface(name, model, mac, pci) ==
    [Name |-> name, Model |-> model, MacAddress |-> mac, PciAddress |-> pci]

net1 == <<"n", "e", "t", "1">>
net2 == <<"n", "e", "t", "2">>
quoted == <<"a", "\"", "\\">>

ListNames == {net1, net2, quoted}

eth0 == <<"e", "t", "h", "0">>
eth_0 == <<"e", "t", "h", " ", "0">>

FormatNames ==
    { eth0,
      <<"m", "y", "-", "i", "f", "a", "c", "e", "_", "1">>,
      <<>>,
      eth_0,
      <<"e", "t", "h", "/", "0">>,
      <<"e", "t", "h", "0", "\n">>,
      <<"A", "Z", "a", "z", "0", "9", "-", "_">>,
      <<"@">>, <<"[">>, <<"{">>, <<":">>, <<"^">>, <<"'", "x">>, <<"n", ".", "1">> }

Models ==
    {"", "e1000", "e1000e", "ne2k_pci", "pcnet", "rtl8139", "virtio", "banana", "VIRTIO", "e1000 "}

mac48 ==
    <<"d", "e", ":", "a", "d", ":", "b", "e", ":", "e", "f", ":", "0", "0", ":", "0", "1">>
notamac == <<"n", "o", "t", "-", "a", "-", "m", "a", "c">>
eui64 == Rep(<<"0", "2">>, ":", 8)

MacAddresses ==
    { <<>>, mac48, notamac, eui64,
      Rep(<<"F", "e">>, "-", 6),
      Rep(<<"0", "2">>, "-", 20),
      Rep(<<"0", "2">>, ":", 7),
      Rep(<<"z", "z">>, ":", 6),
      Rep(<<"z", "z">>, ":", 8),
      Rep(<<"d", "e", "a", "d">>, ".", 3),
      Rep(<<"d", "e", "a", "d">>, ".", 4),
      Rep(<<"d", "e", "a", "d">>, ".", 10),
      Rep(<<"d", "e", "a", "g">>, ".", 4),
      <<"d", "e", ":", "a", "d", "-", "b", "e", ":", "e", "f", ":", "0", "0", ":", "0", "1">>,
      <<"d", "e", ":", "a", "d", ":", "b", "e", ":", "e", "f", ":", "0", "0", ":", "1">>,
      mac48 \o <<":">>,
      Rep(<<"d", "e", "a", "d", "b", "e", "e", "f">>, " ", 2) }

pciGood == <<"0", "0", "0", "0", ":", "0", "0", ":", "1", "f", ".", "2">>
pciBad == <<"z", "z", ":", "0", "0", ":", "0", "0", ".", "0">>

PciAddresses ==
    { <<>>, pciGood, pciBad, <<"0", "0", ":", "1", "f", ".", "2">>, pciGood \o <<"0">> }

\* The lists of the cross-reference and uniqueness checks: names only.
ListSpecs ==
    [Networks : SeqsUpTo({Network(n) : n \in ListNames}, MaxNetworks),
     Interfaces : SeqsUpTo({Interface(n, "", <<>>, <<>>) : n \in ListNames}, MaxInterfaces)]

\* Interfaces that pass every field check, fail a single one, or fail all four.
ComboInterfaces ==
    { Interface(eth0, "virtio", mac48, pciGood),
      Interface(eth_0, "virtio", mac48, pciGood),
      Interface(eth0, "banana", mac48, pciGood),
      Interface(eth0, "virtio", notamac, pciGood),
      Interface(eth0, "virtio", eui64, pciGood),
      Interface(eth0, "virtio", mac48, pciBad),
      Interface(eth_0, "banana", notamac, pciBad) }

\* Interfaces that differ from a valid one in a single field.
VariedInterfaces ==
    {Interface(n, "", <<>>, <<>>) : n \in FormatNames}
        \cup {Interface(eth0, m, <<>>, <<>>) : m \in Models}
        \cup {Interface(eth0, "", a, <<>>) : a \in MacAddresses}
        \cup {Interface(eth0, "", <<>>, p) : p \in PciAddresses}

Padded(iface, k) == [i \in 1..(k + 1) |-> IF i <= k THEN Interface(eth0, "", <<>>, <<>>) ELSE iface]

FieldSpecs ==
    [Networks : {<<>>},
     Interfaces : SeqsUpTo(ComboInterfaces, MaxFieldInterfaces)
                      \cup {Padded(iface, k) : iface \in VariedInterfaces, k \in 0..MaxPad}]

(***************************************************************************)
(* The state: the arguments, the checks of the whole spec that have        *)
(* returned with what each returned, and the latest call of a check of a   *)
(* single interface.                                                       *)
(***************************************************************************)
Checks ==
    {"validateNetworksAssignedToInterfaces", "validateInterfacesAssignedToNetworks",
     "validateNetworkNameUnique", "validateInterfaceNameUnique", "validateInterfacesFields"}

NoSub == [fn |-> "", idx |-> -1, causes |-> <<>>]

Returned(fn, causes) ==
    /\ called' = called \cup {fn}
    /\ ret' = [ret EXCEPT ![fn] = causes]
    /\ UNCHANGED <<field, spec, sub>>

SubReturned(fn, idx, causes) ==
    /\ sub' = [fn |-> fn, idx |-> idx, causes |-> causes]
    /\ UNCHANGED <<field, spec, called, ret>>

Init ==
    /\ field \in Fields
    /\ spec \in ListSpecs
    /\ called = {}
    /\ ret = [fn \in Checks |-> <<>>]
    /\ sub = NoSub

CallNetworksAssignedToInterfaces ==
    Returned("validateNetworksAssignedToInterfaces", validateNetworksAssignedToInterfaces(field, spec))

CallInterfacesAssignedToNetworks ==
    Returned("validateInterfacesAssignedToNetworks", validateInterfacesAssignedToNetworks(field, spec))

CallNetworkNameUnique ==
    Returned("validateNetworkNameUnique", validateNetworkNameUnique(field, spec))

CallInterfaceNameUnique ==
    Returned("validateInterfaceNameUnique", validateInterfaceNameUnique(field, spec))

Next ==
    \/ CallNetworksAssignedToInterfaces
    \/ CallInterfacesAssignedToNetworks
    \/ CallNetworkNameUnique
    \/ CallInterfaceNameUnique

Spec == Init /\ [][Next]_vars

InitFields ==
    /\ field \in Fields
    /\ spec \in FieldSpecs
    /\ called = {}
    /\ ret = [fn \in Checks |-> <<>>]
    /\ sub = NoSub

CallInterfacesFields ==
    Returned("validateInterfacesFields", validateInterfacesFields(field, spec))

CallInterfaceNameFormat ==
    \E idx \in 0..(Len(spec.Interfaces) - 1) :
        SubReturned("validateInterfaceNameFormat", idx,
                    validateInterfaceNameFormat(field, idx, spec.Interfaces[idx + 1]))

CallInterfaceModel ==
    \E idx \in 0..(Len(spec.Interfaces) - 1) :
        SubReturned("validateInterfaceModel", idx,
                    validateInterfaceModel(field, idx, spec.Interfaces[idx + 1]))

CallMacAddress ==
    \E idx \in 0..(Len(spec.Interfaces) - 1) :
        SubReturned("validateMacAddress", idx,
                    validateMacAddress(field, idx, spec.Interfaces[idx + 1]))

CallPciAddress ==
    \E idx \in 0..(Len(spec.Interfaces) - 1) :
        SubReturned("validatePciAddress", idx,
                    validatePciAddress(field, idx, spec.Interfaces[idx + 1]))

NextFields ==
    \/ CallInterfacesFields
    \/ CallInterfaceNameFormat
    \/ CallInterfaceModel
    \/ CallMacAddress
    \/ CallPciAddress

SpecFields == InitFields /\ [][NextFields]_vars

(***************************************************************************)
(* Vocabulary of the properties.                                           *)
(***************************************************************************)
PathPrefix == IF field = NilPath THEN "" ELSE "spec."

NetworkNameField(i) == PathPrefix \o "networks[" \o ToString(i) \o "].name"

InterfaceField(i, name) ==
    PathPrefix \o "domain.devices.interfaces[" \o ToString(i) \o "]." \o name

NetworkNames == [i \in 1..Len(spec.Networks) |-> spec.Networks[i].Name]

InterfaceNames == [i \in 1..Len(spec.Interfaces) |-> spec.Interfaces[i].Name]

Occurrences(names, name) == Cardinality({i \in 1..Len(names) : names[i] = name})

\* The Go indices of the entries whose name occurs earlier in the list.
RepeatIndices(names) ==
    {i \in 0..(Len(names) - 1) : \E j \in 0..(i - 1) : names[j + 1] = names[i + 1]}

\* The Go indices of the entries whose name is not one of others.
UnmatchedIndices(names, others) ==
    {i \in 0..(Len(names) - 1) : \A j \in 1..Len(others) : others[j] # names[i + 1]}

\* causes has one cause of the type per index of the set, in increasing
\* index order, with the field path of that index, and nothing else.
OnePerIndex(causes, indices, type, Path(_)) ==
    /\ Len(causes) = Cardinality(indices)
    /\ \A k \in 1..Len(causes) :
          /\ causes[k].Type = type
          /\ \E i \in indices :
                /\ causes[k].Field = Path(i)
                /\ Cardinality({j \in indices : j < i}) = k - 1

InterfaceNameField(i) == InterfaceField(i, "name")

HasReturned(fn) == fn \in called

\* C1: each uniqueness check returns, for a name that occurs k times, k-1
\* Duplicate causes, one per occurrence after the first, in list order, with
\* the field path of that occurrence; the first occurrence is not reported.
C1_DuplicatePerRepeat ==
    /\ HasReturned("validateNetworkNameUnique") =>
          LET causes == ret["validateNetworkNameUnique"]
          IN  /\ OnePerIndex(causes, RepeatIndices(NetworkNames),
                             CauseTypeFieldValueDuplicate, NetworkNameField)
              /\ \A name \in ListNames :
                    Occurrences(NetworkNames, name) >= 1 =>
                       /\ Cardinality({k \in 1..Len(causes) :
                             \E i \in 0..(Len(NetworkNames) - 1) :
                                /\ NetworkNames[i + 1] = name
                                /\ causes[k].Field = NetworkNameField(i)})
                            = Occurrences(NetworkNames, name) - 1
                       /\ LET first == CHOOSE i \in 0..(Len(NetworkNames) - 1) :
                                          /\ NetworkNames[i + 1] = name
                                          /\ \A j \in 0..(i - 1) : NetworkNames[j + 1] # name
                          IN  \A k \in 1..Len(causes) : causes[k].Field # NetworkNameField(first)
    /\ HasReturned("validateInterfaceNameUnique") =>
          LET causes == ret["validateInterfaceNameUnique"]
          IN  /\ OnePerIndex(causes, RepeatIndices(InterfaceNames),
                             CauseTypeFieldValueDuplicate, InterfaceNameField)
              /\ \A name \in ListNames :
                    Occurrences(InterfaceNames, name) >= 1 =>
                       Cardinality({k \in 1..Len(causes) :
                             \E i \in 0..(Len(InterfaceNames) - 1) :
                                /\ InterfaceNames[i + 1] = name
                                /\ causes[k].Field = InterfaceNameField(i)})
                         = Occurrences(InterfaceNames, name) - 1

\* Both uniqueness checks have returned for lists in which a name occurs
\* three times.
C1_Witness ==
    /\ HasReturned("validateNetworkNameUnique")
    /\ HasReturned("validateInterfaceNameUnique")
    /\ Occurrences(NetworkNames, net1) = 3
    /\ Len(ret["validateNetworkNameUnique"]) = 2
    /\ Len(InterfaceNames) = 3
    /\ Occurrences(InterfaceNames, net2) = 2
    /\ Len(ret["validateInterfaceNameUnique"]) = 1

\* C2: validateNetworksAssignedToInterfaces returns one Required cause per
\* network whose name is no interface name, validateInterfacesAssignedToNetworks
\* one Invalid cause per interface whose name is no network name, in list
\* order, with the field path of the entry, and no other cause.
C2_CausePerUnmatched ==
    /\ HasReturned("validateNetworksAssignedToInterfaces") =>
          OnePerIndex(ret["validateNetworksAssignedToInterfaces"],
                      UnmatchedIndices(NetworkNames, InterfaceNames),
                      CauseTypeFieldValueRequired, NetworkNameField)
    /\ HasReturned("validateInterfacesAssignedToNetworks") =>
          OnePerIndex(ret["validateInterfacesAssignedToNetworks"],
                      UnmatchedIndices(InterfaceNames, NetworkNames),
                      CauseTypeFieldValueInvalid, InterfaceNameField)
    /\ (/\ HasReturned("validateNetworksAssignedToInterfaces")
        /\ HasReturned("validateInterfacesAssignedToNetworks")
        /\ \A i \in 1..Len(NetworkNames) : Occurrences(InterfaceNames, NetworkNames[i]) >= 1
        /\ \A i \in 1..Len(InterfaceNames) : Occurrences(NetworkNames, InterfaceNames[i]) >= 1)
          => /\ ret["validateNetworksAssignedToInterfaces"] = <<>>
             /\ ret["validateInterfacesAssignedToNetworks"] = <<>>

\* Both cross-reference checks have returned causes, the network one for the
\* second and third network only.
C2_Witness ==
    /\ HasReturned("validateNetworksAssignedToInterfaces")
    /\ HasReturned("validateInterfacesAssignedToNetworks")
    /\ NetworkNames = <<net1, net2, quoted>>
    /\ InterfaceNames = <<net1, net1>>
    /\ Len(ret["validateNetworksAssignedToInterfaces"]) = 2
    /\ ret["validateInterfacesAssignedToNetworks"] = <<>>

AllListChecksReturned ==
    /\ HasReturned("validateNetworksAssignedToInterfaces")
    /\ HasReturned("validateInterfacesAssignedToNetworks")
    /\ HasReturned("validateNetworkNameUnique")
    /\ HasReturned("validateInterfaceNameUnique")

\* C5: the two cross-reference checks and the two uniqueness checks all
\* return no cause exactly when every network name occurs once among the
\* interface names and every interface name once among the network names.
C5_EmptyIffOneToOne ==
    AllListChecksReturned =>
        ((/\ ret["validateNetworksAssignedToInterfaces"] = <<>>
          /\ ret["validateInterfacesAssignedToNetworks"] = <<>>
          /\ ret["validateNetworkNameUnique"] = <<>>
          /\ ret["validateInterfaceNameUnique"] = <<>>)
         <=>
         (/\ \A i \in 1..Len(NetworkNames) : Occurrences(InterfaceNames, NetworkNames[i]) = 1
          /\ \A i \in 1..Len(InterfaceNames) : Occurrences(NetworkNames, InterfaceNames[i]) = 1))

\* The four checks have returned no cause for three networks and three
\* interfaces.
C5_Witness ==
    /\ AllListChecksReturned
    /\ Len(NetworkNames) = 3
    /\ Len(InterfaceNames) = 3
    /\ NetworkNames # InterfaceNames
    /\ \A fn \in Checks : ret[fn] = <<>>

C7_QuotedMessage(name) ==
    CASE name = net1 ->
            "Network with name \"net1\" already exists, every network must have a unique name"
      [] name = net2 ->
            "Network with name \"net2\" already exists, every network must have a unique name"
      [] name = quoted ->
            "Network with name \"a\\\"\\\\\" already exists, every network must have a unique name"

DuplicateNetworkMessages(Message(_)) ==
    HasReturned("validateNetworkNameUnique") =>
        LET causes == ret["validateNetworkNameUnique"]
        IN  \A k \in 1..Len(causes) :
               \A i \in 0..(Len(NetworkNames) - 1) :
                  causes[k].Field = NetworkNameField(i) =>
                     causes[k].Message = Message(NetworkNames[i + 1])

C7_SingleQuotedMessage(name) ==
    "Network with name '" \o Str(name) \o "' already exists, every network must have a unique name"

\* C7 as stated: the message of a Duplicate cause of validateNetworkNameUnique
\* has the repeated name between single quotes, otherwise unaltered.
C7_Original == DuplicateNetworkMessages(C7_SingleQuotedMessage)

\* C7 as amended: the message of a Duplicate cause of validateNetworkNameUnique
\* has the repeated name as the %q verb prints it, between double quotes and
\* with a backslash before a double quote or a backslash of the name.
C7_Amended == DuplicateNetworkMessages(C7_QuotedMessage)

\* validateNetworkNameUnique has returned a cause for a repeated name that
\* holds a double quote and a backslash.
C7_Witness ==
    /\ HasReturned("validateNetworkNameUnique")
    /\ NetworkNames = <<quoted, net1, quoted>>
    /\ Len(ret["validateNetworkNameUnique"]) = 1

(***************************************************************************)
(* Properties of the checks of a single interface.                         *)
(***************************************************************************)
SubInterface == spec.Interfaces[sub.idx + 1]

RECURSIVE SeqToSet(_)
SeqToSet(seq) == IF seq = <<>> THEN {} ELSE {Head(seq)} \cup SeqToSet(Tail(seq))

NameCharacters == SeqToSet(Upper) \cup SeqToSet(Lower) \cup SeqToSet(Digits) \cup {"_", "-"}

WellFormedName(name) ==
    /\ Len(name) >= 1
    /\ \A i \in 1..Len(name) : name[i] \in NameCharacters

\* C8: validateInterfaceNameFormat returns no cause exactly for a non-empty
\* name of characters A-Z, a-z, 0-9, '_' and '-', and otherwise one Invalid
\* cause with the field path of the interface name.
C8_NameFormat ==
    sub.fn = "validateInterfaceNameFormat" =>
        /\ (sub.causes = <<>>) <=> WellFormedName(SubInterface.Name)
        /\ ~WellFormedName(SubInterface.Name) =>
              /\ Len(sub.causes) = 1
              /\ sub.causes[1].Type = CauseTypeFieldValueInvalid
              /\ sub.causes[1].Field = InterfaceField(sub.idx, "name")
        /\ SubInterface.Name \in {eth0, <<"m", "y", "-", "i", "f", "a", "c", "e", "_", "1">>}
              => sub.causes = <<>>
        /\ SubInterface.Name \in {<<>>, eth_0, <<"e", "t", "h", "/", "0">>}
              => Len(sub.causes) = 1

\* validateInterfaceNameFormat has returned a cause for a name that ends in a
\* line feed after valid characters, at the third interface.
C8_Witness ==
    /\ sub.fn = "validateInterfaceNameFormat"
    /\ sub.idx = 2
    /\ SubInterface.Name = <<"e", "t", "h", "0", "\n">>
    /\ Len(sub.causes) = 1

\* C9: validateInterfaceModel returns no cause for the empty model and for
\* e1000, e1000e, ne2k_pci, pcnet, rtl8139 and virtio, and for any other
\* model one NotSupported cause with the field path of the model.
C9_Model ==
    sub.fn = "validateInterfaceModel" =>
        IF SubInterface.Model \in {"", "e1000", "e1000e", "ne2k_pci", "pcnet", "rtl8139", "virtio"}
        THEN sub.causes = <<>>
        ELSE /\ Len(sub.causes) = 1
             /\ sub.causes[1].Type = CauseTypeFieldValueNotSupported
             /\ sub.causes[1].Field = InterfaceField(sub.idx, "model")

\* validateInterfaceModel has returned a cause for the model banana.
C9_Witness ==
    /\ sub.fn = "validateInterfaceModel"
    /\ SubInterface.Model = "banana"
    /\ Len(sub.causes) = 1
    /\ sub.causes[1].Type = CauseTypeFieldValueNotSupported

IsMalformedMac(cause, idx, mac) ==
    /\ cause.Type = CauseTypeFieldValueInvalid
    /\ cause.Message = "interface " \o InterfaceField(idx, "name")
                           \o " has malformed MAC address (" \o Str(mac) \o ")."
    /\ cause.Field = InterfaceField(idx, "macAddress")

IsTooLongMac(cause, idx, mac) ==
    /\ cause.Type = CauseTypeFieldValueInvalid
    /\ cause.Message = "interface " \o InterfaceField(idx, "name")
                           \o " has MAC address (" \o Str(mac) \o ") that is too long."
    /\ cause.Field = InterfaceField(idx, "macAddress")

\* C4: validateMacAddress returns no cause for an empty macAddress and for
\* one that parses to at most 6 bytes, the malformed cause alone for one that
\* does not parse, and the too long cause for one that parses to more than 6
\* bytes, each with the field path of the macAddress.
C4_MacCauses ==
    sub.fn = "validateMacAddress" =>
        LET mac == SubInterface.MacAddress
            parsed == ParseMAC(mac)
        IN  /\ (mac = <<>> \/ (~parsed.err /\ Len(parsed.hw) <= 6)) => sub.causes = <<>>
            /\ (mac # <<>> /\ parsed.err) =>
                  /\ Len(sub.causes) = 1
                  /\ IsMalformedMac(sub.causes[1], sub.idx, mac)
            /\ (mac # <<>> /\ ~parsed.err /\ Len(parsed.hw) > 6) =>
                  \E k \in 1..Len(sub.causes) : IsTooLongMac(sub.causes[k], sub.idx, mac)
            /\ mac = mac48 => sub.causes = <<>>
            /\ mac = notamac => Len(sub.causes) = 1 /\ IsMalformedMac(sub.causes[1], sub.idx, mac)
            /\ mac = eui64 => Len(sub.causes) = 1 /\ IsTooLongMac(sub.causes[1], sub.idx, mac)

\* validateMacAddress has returned the too long cause for an address of 20
\* bytes.
C4_Witness ==
    /\ sub.fn = "validateMacAddress"
    /\ SubInterface.MacAddress = Rep(<<"0", "2">>, "-", 20)
    /\ Len(sub.causes) = 1
    /\ IsTooLongMac(sub.causes[1], sub.idx, SubInterface.MacAddress)

\* C3 as stated: some macAddress makes validateMacAddress return both the
\* malformed cause and the too long cause, in that order, for the interface.
C3_Original ==
    sub.fn = "validateMacAddress" =>
        \E mac \in MacAddresses :
            LET causes == validateMacAddress(field, sub.idx, [SubInterface EXCEPT !.MacAddress = mac])
            IN  /\ Len(causes) = 2
                /\ IsMalformedMac(causes[1], sub.idx, mac)
                /\ IsTooLongMac(causes[2], sub.idx, mac)

\* C3 as amended: validateMacAddress never returns both causes: it returns at
\* most one cause, and the too long cause only for an address that parses.
C3_Amended ==
    sub.fn = "validateMacAddress" =>
        LET mac == SubInterface.MacAddress
        IN  /\ Len(sub.causes) <= 1
            /\ ~(/\ \E k \in 1..Len(sub.causes) : IsMalformedMac(sub.causes[k], sub.idx, mac)
                 /\ \E k \in 1..Len(sub.causes) : IsTooLongMac(sub.causes[k], sub.idx, mac))
            /\ (\E k \in 1..Len(sub.causes) : IsTooLongMac(sub.causes[k], sub.idx, mac))
                  => ~ParseMAC(mac).err

\* validateMacAddress has returned the malformed cause alone for eight groups
\* that are not hexadecimal.
C3_Witness ==
    /\ sub.fn = "validateMacAddress"
    /\ SubInterface.MacAddress = Rep(<<"z", "z">>, ":", 8)
    /\ Len(sub.causes) = 1
    /\ IsMalformedMac(sub.causes[1], sub.idx, SubInterface.MacAddress)

(***************************************************************************)
(* Properties of validateInterfacesFields.                                 *)
(***************************************************************************)
\* The causes of the interfaces from Go index idx on, sub-check by sub-check.
RECURSIVE ExpectedFieldCauses(_)
ExpectedFieldCauses(idx) ==
    IF idx >= Len(spec.Interfaces) THEN <<>>
    ELSE LET iface == spec.Interfaces[idx + 1]
             name == validateInterfaceNameFormat(field, idx, iface)
             model == validateInterfaceModel(field, idx, iface)
             mac == validateMacAddress(field, idx, iface)
             pci == validatePciAddress(field, idx, iface)
             rest == ExpectedFieldCauses(idx + 1)
         IN  [k \in 1..(Len(name) + Len(model) + Len(mac) + Len(pci) + Len(rest)) |->
                 IF k <= Len(name) THEN name[k]
                 ELSE IF k <= Len(name) + Len(model) THEN model[k - Len(name)]
                 ELSE IF k <= Len(name) + Len(model) + Len(mac)
                      THEN mac[k - Len(name) - Len(model)]
                 ELSE IF k <= Len(name) + Len(model) + Len(mac) + Len(pci)
                      THEN pci[k - Len(name) - Len(model) - Len(mac)]
                 ELSE rest[k - Len(name) - Len(model) - Len(mac) - Len(pci)]]

allBad == Interface(eth_0, "banana", notamac, pciBad)

CausesAt(causes, idx) ==
    SelectSeq(causes, LAMBDA c : c.Field \in {InterfaceField(idx, f) :
                                     f \in {"name", "model", "macAddress", "pciAddress"}})

\* C10: validateInterfacesFields returns the causes of the name, model, MAC
\* and PCI checks of each interface, in that order, interface after interface;
\* an interface that fails the four checks contributes a cause of each,
\* whatever the interfaces before it.
C10_AllSubChecks ==
    HasReturned("validateInterfacesFields") =>
        LET causes == ret["validateInterfacesFields"]
        IN  /\ causes = ExpectedFieldCauses(0)
            /\ \A idx \in 0..(Len(spec.Interfaces) - 1) :
                  spec.Interfaces[idx + 1] = allBad =>
                     LET own == CausesAt(causes, idx)
                     IN  /\ Len(own) = 4
                         /\ own[1].Type = CauseTypeFieldValueInvalid
                         /\ own[1].Field = InterfaceField(idx, "name")
                         /\ own[2].Type = CauseTypeFieldValueNotSupported
                         /\ own[2].Field = InterfaceField(idx, "model")
                         /\ own[3].Type = CauseTypeFieldValueInvalid
                         /\ own[3].Field = InterfaceField(idx, "macAddress")
                         /\ own[4].Type = CauseTypeFieldValueInvalid
                         /\ own[4].Field = InterfaceField(idx, "pciAddress")

\* validateInterfacesFields has returned eight causes for two interfaces that
\* each fail the four checks.
C10_Witness ==
    /\ HasReturned("validateInterfacesFields")
    /\ spec.Interfaces = <<allBad, allBad>>
    /\ Len(ret["validateInterfacesFields"]) = 8

====
